---- MODULE Spec2Model ----
(***************************************************************************)
(* Model of the expense-tracker Telegram bot (src/bot.py) together with    *)
(* the store functions it calls (src/expense_tracker.py).                  *)
(*                                                                         *)
(* The polling loop of main() is a state machine over pc; every handler    *)
(* is an operator that threads a run record through the statements of the  *)
(* handler, so that exceptions, early returns and try/except blocks are    *)
(* followed as the code follows them.  Texts are sequences of one-letter   *)
(* strings, so that str.split, float() and int() are computed.             *)
(***************************************************************************)
EXTENDS Integers, Sequences, FiniteSets, TLC

(***************************************************************************)
(* Bounds of the model.                                                    *)
(***************************************************************************)
MaxId == 3          \* update identifiers are 1..MaxId
MaxBatch == 2       \* most updates in one getUpdates answer
MaxDispatch == 4    \* most updates dispatched in one run (caps the history)

(***************************************************************************)
(* Program constants.                                                      *)
(***************************************************************************)
\* Chat identifiers exceed 32 bits and are only compared: kept as strings.
AUTHORIZED_CHAT_ID == "5515574299"
STRANGER_CHAT_ID == "5515574300"          \* some other chat
ChatIds == {AUTHORIZED_CHAT_ID, STRANGER_CHAT_ID}
PollDelay == 5                   \* time.sleep(0.5), in tenths of a second
RetryDelay == 50                 \* time.sleep(5), in tenths of a second
MINYEAR == 1                     \* datetime.MINYEAR
None == 0 - 1                    \* Python's None where a number may stand

\* Mutation of is_authorized: the comparison is lost, every chat passes.
is_authorized_any(chat_id) == chat_id = chat_id

is_authorized(chat_id) == chat_id = AUTHORIZED_CHAT_ID

(***************************************************************************)
(* Texts.  str.split(), str.split(maxsplit=2), str.strip(), float(), int() *)
(***************************************************************************)
Digits == {"0", "1", "2", "3", "4", "5", "6", "7", "8", "9"}
DigitVal(c) ==
    CASE c = "0" -> 0 [] c = "1" -> 1 [] c = "2" -> 2 [] c = "3" -> 3
      [] c = "4" -> 4 [] c = "5" -> 5 [] c = "6" -> 6 [] c = "7" -> 7
      [] c = "8" -> 8 [] OTHER -> 9

START == <<"/", "s", "t", "a", "r", "t">>

RECURSIVE LStrip(_)
LStrip(s) == IF s # <<>> /\ Head(s) = " " THEN LStrip(Tail(s)) ELSE s

RECURSIVE RStrip(_)
RStrip(s) ==
    IF s # <<>> /\ s[Len(s)] = " " THEN RStrip(SubSeq(s, 1, Len(s) - 1)) ELSE s

Strip(s) == RStrip(LStrip(s))

RECURSIVE TakeTok(_)
TakeTok(s) ==
    IF s = <<>> \/ Head(s) = " " THEN <<>> ELSE <<Head(s)>> \o TakeTok(Tail(s))

RECURSIVE DropTok(_)
DropTok(s) == IF s = <<>> \/ Head(s) = " " THEN s ELSE DropTok(Tail(s))

\* text.split(maxsplit=n) with the default separator: runs of blanks
\* separate tokens; after n splits the rest is one part, leading blanks
\* dropped and trailing blanks kept.
RECURSIVE SplitN(_, _)
SplitN(s, n) ==
    LET t == LStrip(s) IN
    IF t = <<>> THEN <<>>
    ELSE IF n = 0 THEN <<t>>
    ELSE <<TakeTok(t)>> \o SplitN(DropTok(t), n - 1)

Split(s) == SplitN(s, Len(s))

\* float(tok) and int(tok) succeed on the tokens of the modelled alphabet
\* exactly when the token is a non-empty run of digits, with or without a
\* minus sign in front.
IsDigits(tok) == tok # <<>> /\ \A i \in 1..Len(tok) : tok[i] \in Digits

IsNumber(tok) ==
    IF tok # <<>> /\ Head(tok) = "-" THEN IsDigits(Tail(tok)) ELSE IsDigits(tok)

RECURSIVE NatVal(_)
NatVal(tok) ==
    IF tok = <<>> THEN 0
    ELSE 10 * NatVal(SubSeq(tok, 1, Len(tok) - 1)) + DigitVal(tok[Len(tok)])

NumVal(tok) ==
    IF tok # <<>> /\ Head(tok) = "-" THEN 0 - NatVal(Tail(tok)) ELSE NatVal(tok)

\* The free texts a user sends (besides "/start").
Texts == {
    <<"a">>,
    <<"a", " ", "b">>,
    <<"a", " ", "2">>,
    <<"a", " ", "0">>,
    <<"a", " ", "2", " ", "b", " ", "a", " ">>,
    <<"2", " ", "1", "3">>,
    <<"2", " ", "1">>,
    <<"0", " ", "1">>,
    <<"2", " ", "-", "1">>
}

\* The callback_data of the buttons, and one tag that no button carries.
Tags == {"add_expense", "view_expenses", "monthly_summary", "analytics",
         "ana_category", "ana_monthly", "ana_stats", "back_menu", "bogus"}


(***************************************************************************)
(* Handler runs.  A handler is followed statement by statement on a SET of *)
(* runs: a statement that calls the outside splits every run into one run  *)
(* per outcome of the call, a raise marks the run, and the statements      *)
(* after it leave a marked run alone until an except clause catches it.    *)
(*                                                                         *)
(* A call to the chat transport (requests.post) returns or raises;         *)
(* response.json() raises a ValueError subclass on a malformed body.  The  *)
(* store functions of src/expense_tracker.py catch every Exception         *)
(* themselves.  A user interrupt is taken between the steps of the loop    *)
(* (action Interrupt).                                                     *)
(***************************************************************************)
TransportErrors == {"ValueError", "Exception"}

\* Everything "except Exception" catches.
IsException(e) == e \in {"ValueError", "KeyError", "Exception"}

\* What supabase's select on table "labels" gives fetch_all_expenses:
\* a failure, no rows, rows that are all well formed, rows of which some
\* are malformed, rows that are all malformed.
SelectResults == {"fail", "empty", "valid", "mixed", "malformed"}
\* What the rpc get_monthly_total gives: a failure, no data, a total.
RpcResults == {"fail", "nodata", "total"}

\* A run: the calls made so far, the conversation store, the pending
\* exception, the value the last store function returned, the open figures
\* and the rows of the remote table.
NewRun(ud, nfigs, nrows) ==
    [calls |-> <<>>, ud |-> ud, exc |-> "none", ret |-> "none",
     figs |-> nfigs, rows |-> nrows]

Live(R) == {r \in R : r.exc = "none"}
Dead(R) == {r \in R : r.exc # "none"}

Raise(R, e) == {[r EXCEPT !.exc = e] : r \in Live(R)} \cup Dead(R)
Caught(R) == {[r EXCEPT !.exc = "none"] : r \in R}

Call(op, chat_id, what, ok) ==
    [op |-> op, chat |-> chat_id, what |-> what, ok |-> ok]

\* A call to the chat transport.
Tx(R, op, chat_id, what) ==
    {[r EXCEPT !.calls = Append(@, Call(op, chat_id, what, TRUE))] :
        r \in Live(R)}
    \cup {[r EXCEPT !.calls = Append(@, Call(op, chat_id, what, FALSE)),
                    !.exc = e] : r \in Live(R), e \in TransportErrors}
    \cup Dead(R)

send_message(R, chat_id, what) == Tx(R, "send_message", chat_id, what)
send_photo(R, chat_id, what) == Tx(R, "send_photo", chat_id, what)
\* Mutation of answer_callback_query: the request is never posted.
answer_callback_query_skipped(R, callback_query_id) == R

answer_callback_query(R, callback_query_id) ==
    Tx(R, "answer_callback_query", "none", callback_query_id)

\* Mutation of the assignment user_data[chat_id] = {...}: an entry that is
\* already there is kept (setdefault).
SetState_keep(R, chat_id, mode) ==
    {[r EXCEPT !.ud = [c \in DOMAIN r.ud \cup {chat_id} |->
                          IF c \in DOMAIN r.ud THEN r.ud[c]
                          ELSE [state |-> mode]]] :
        r \in Live(R)}
    \cup Dead(R)

\* user_data[chat_id] = {'state': mode}
SetState(R, chat_id, mode) ==
    {[r EXCEPT !.ud = [c \in DOMAIN r.ud \cup {chat_id} |->
                          IF c = chat_id THEN [state |-> mode] ELSE r.ud[c]]] :
        r \in Live(R)}
    \cup Dead(R)

\* del user_data[chat_id]
DelState(R, chat_id) ==
    {IF chat_id \in DOMAIN r.ud
        THEN [r EXCEPT !.ud = [c \in DOMAIN r.ud \ {chat_id} |-> r.ud[c]]]
        ELSE [r EXCEPT !.exc = "KeyError"] : r \in Live(R)}
    \cup Dead(R)

(***************************************************************************)
(* src/expense_tracker.py                                                  *)
(***************************************************************************)
\* "if not category or not amount: return", else the insert is issued and
\* succeeds or fails; nothing is raised or returned to the caller.
store_expense(R, category, amount, note) ==
    IF category = <<>> \/ amount = 0 THEN R
    ELSE LET data == [category |-> Strip(category),
                      amount |-> amount,
                      note |-> IF note # <<>> THEN Strip(note) ELSE <<>>]
         IN  {[r EXCEPT !.calls = Append(@, Call("insert", "none", data, TRUE)),
                        !.rows = @ + 1] : r \in Live(R)}
             \cup {[r EXCEPT !.calls =
                        Append(@, Call("insert", "none", data, FALSE))] :
                      r \in Live(R)}
             \cup Dead(R)

\* The select is issued; response.data is returned, None on a failure.
fetch_all_expenses(R) ==
    {[r EXCEPT !.calls = Append(@, Call("select", "none", "labels", s # "fail")),
               !.ret = s] : r \in Live(R), s \in SelectResults}
    \cup Dead(R)

\* The rpc is issued; response.data is returned, None on a failure.
fetch_monthly_total(R, year, month) ==
    {[r EXCEPT !.calls = Append(@, Call("rpc", "none",
                                        [year |-> year, month |-> month],
                                        s # "fail")),
               !.ret = s] : r \in Live(R), s \in RpcResults}
    \cup Dead(R)

\* "not expenses" / "not all_data"
NoRows(r) == r.ret \in {"fail", "empty"}

(***************************************************************************)
(* src/ana.py: process_data raises ValueError when the rows are no         *)
(* non-empty list or when no row validates.                                *)
(***************************************************************************)
process_data(R) ==
    LET bad == {r \in Live(R) : r.ret \in {"fail", "empty", "malformed"}}
    IN  Raise(bad, "ValueError") \cup (R \ bad)

(***************************************************************************)
(* src/bot.py: the handlers                                                *)
(***************************************************************************)
handle_start(R, chat_id) == send_message(R, chat_id, "welcome_menu")

\* The loop over expenses[:10] reads time, category, amount and note of
\* every row; nothing in show_all_expenses catches what a malformed row
\* raises.
show_all_expenses(R, chat_id) ==
    LET R1 == fetch_all_expenses(R)
        none == {r \in Live(R1) : NoRows(r)}
        bad == {r \in Live(R1) \ none : r.ret # "valid"}
        good == (Live(R1) \ none) \ bad
    IN  send_message(none, chat_id, "no_expenses")
        \cup Raise(bad, "KeyError")
        \cup send_message(good, chat_id, "recent_expenses")
        \cup Dead(R1)

show_analytics_menu(R, chat_id) == send_message(R, chat_id, "analytics_menu")

\* fig, ax = plt.subplots(...)
OpenFigure(R) == {[r EXCEPT !.figs = @ + 1] : r \in Live(R)} \cup Dead(R)

\* ax.pie / ax.plot ... plt.savefig: returns, or raises with the figure open.
Render(R) == Live(R) \cup Raise(Live(R), "Exception") \cup Dead(R)

\* plt.close()
CloseFigure(R) ==
    {[r EXCEPT !.figs = IF @ > 0 THEN @ - 1 ELSE 0] : r \in Live(R)}
    \cup Dead(R)

\* The body shared by send_category_chart and send_monthly_chart, which
\* differ in the texts and in what is drawn.
SendChart(R, chat_id, wait, caption) ==
    LET R1 == send_message(Live(R), chat_id, wait)
        R2 == fetch_all_expenses(R1)
        none == {r \in Live(R2) : NoRows(r)}
        body == send_message(none, chat_id, "no_data")
                \cup send_photo(
                        CloseFigure(Render(OpenFigure(
                            process_data(Live(R2) \ none)))),
                        chat_id, caption)
                \cup Dead(R2)
        caught == {r \in body : IsException(r.exc)}
    IN  (body \ caught)
        \cup send_message(Caught(caught), chat_id, "chart_error")
        \cup Dead(R)

send_category_chart(R, chat_id) ==
    SendChart(R, chat_id, "generating_category", "category_chart")

send_monthly_chart(R, chat_id) ==
    SendChart(R, chat_id, "generating_monthly", "monthly_chart")

send_statistics(R, chat_id) ==
    LET R1 == fetch_all_expenses(Live(R))
        none == {r \in Live(R1) : NoRows(r)}
        body == send_message(none, chat_id, "no_data")
                \cup send_message(process_data(Live(R1) \ none),
                                  chat_id, "statistics")
                \cup Dead(R1)
        caught == {r \in body : IsException(r.exc)}
    IN  (body \ caught)
        \cup send_message(Caught(caught), chat_id, "statistics_error")
        \cup Dead(R)

\* Mutation of handle_callback_query: going back to the menu drops the
\* pending mode (user_data.pop(chat_id, None)).
handle_callback_query_back_clears(R, callback_query_id, chat_id, data) ==
    LET R1 == answer_callback_query(R, callback_query_id) IN
    IF ~is_authorized(chat_id) THEN send_message(R1, chat_id, "unauthorized")
    ELSE CASE data = "add_expense" ->
                send_message(SetState(R1, chat_id, "waiting_for_expense"),
                             chat_id, "expense_prompt")
           [] data = "view_expenses" -> show_all_expenses(R1, chat_id)
           [] data = "monthly_summary" ->
                send_message(SetState(R1, chat_id, "waiting_for_month"),
                             chat_id, "month_prompt")
           [] data = "analytics" -> show_analytics_menu(R1, chat_id)
           [] data = "ana_category" -> send_category_chart(R1, chat_id)
           [] data = "ana_monthly" -> send_monthly_chart(R1, chat_id)
           [] data = "ana_stats" -> send_statistics(R1, chat_id)
           [] data = "back_menu" ->
                send_message(
                    {[r EXCEPT !.ud = [c \in DOMAIN r.ud \ {chat_id} |-> r.ud[c]]] :
                        r \in Live(R1)} \cup Dead(R1),
                    chat_id, "menu")
           [] OTHER -> R1

handle_callback_query(R, callback_query_id, chat_id, data) ==
    LET R1 == answer_callback_query(R, callback_query_id) IN
    IF ~is_authorized(chat_id) THEN send_message(R1, chat_id, "unauthorized")
    ELSE CASE data = "add_expense" ->
                send_message(SetState(R1, chat_id, "waiting_for_expense"),
                             chat_id, "expense_prompt")
           [] data = "view_expenses" -> show_all_expenses(R1, chat_id)
           [] data = "monthly_summary" ->
                send_message(SetState(R1, chat_id, "waiting_for_month"),
                             chat_id, "month_prompt")
           [] data = "analytics" -> show_analytics_menu(R1, chat_id)
           [] data = "ana_category" -> send_category_chart(R1, chat_id)
           [] data = "ana_monthly" -> send_monthly_chart(R1, chat_id)
           [] data = "ana_stats" -> send_statistics(R1, chat_id)
           [] data = "back_menu" -> send_message(R1, chat_id, "menu")
           [] OTHER -> R1

\* Mutation of handle_expense_input: the state is cleared in the except
\* ValueError clause too.
handle_expense_input_clears(R, chat_id, text) ==
    LET parts == SplitN(text, 2)
        body ==
            IF Len(parts) < 2
            THEN send_message(Live(R), chat_id, "invalid_format")
            ELSE IF ~IsNumber(parts[2]) THEN Raise(Live(R), "ValueError")
            ELSE LET category == parts[1]
                     amount == NumVal(parts[2])
                     note == IF Len(parts) > 2 THEN parts[3] ELSE <<>>
                     R1 == store_expense(Live(R), category, amount, note)
                     R2 == send_message(R1, chat_id, "expense_added")
                 IN  DelState(R2, chat_id)
        ve == {r \in body : r.exc = "ValueError"}
        ex == {r \in body : IsException(r.exc)} \ ve
    IN  (body \ (ve \cup ex))
        \cup DelState(send_message(Caught(ve), chat_id, "invalid_amount"),
                      chat_id)
        \cup send_message(Caught(ex), chat_id, "error")
        \cup Dead(R)

handle_expense_input(R, chat_id, text) ==
    LET parts == SplitN(text, 2)
        body ==
            IF Len(parts) < 2
            THEN send_message(Live(R), chat_id, "invalid_format")
            ELSE IF ~IsNumber(parts[2]) THEN Raise(Live(R), "ValueError")
            ELSE LET category == parts[1]
                     amount == NumVal(parts[2])
                     note == IF Len(parts) > 2 THEN parts[3] ELSE <<>>
                     R1 == store_expense(Live(R), category, amount, note)
                     R2 == send_message(R1, chat_id, "expense_added")
                 IN  DelState(R2, chat_id)
        ve == {r \in body : r.exc = "ValueError"}
        ex == {r \in body : IsException(r.exc)} \ ve
    IN  (body \ (ve \cup ex))
        \cup send_message(Caught(ve), chat_id, "invalid_amount")
        \cup send_message(Caught(ex), chat_id, "error")
        \cup Dead(R)

\* Mutation of handle_month_input: the state is cleared on the month-range
\* rejection too.
handle_month_input_clears(R, chat_id, text) ==
    LET parts == Split(text)
        body ==
            IF Len(parts) # 2
            THEN send_message(Live(R), chat_id, "month_format")
            ELSE IF ~IsNumber(parts[1]) \/ ~IsNumber(parts[2])
            THEN Raise(Live(R), "ValueError")
            ELSE LET year == NumVal(parts[1])
                     month == NumVal(parts[2])
                 IN  IF ~(1 <= month /\ month <= 12)
                     THEN DelState(send_message(Live(R), chat_id, "month_range"),
                                   chat_id)
                     ELSE LET R1 == fetch_monthly_total(Live(R), year, month)
                              R2 == IF year < MINYEAR
                                    THEN Raise(R1, "ValueError") ELSE R1
                              R3 == send_message(R2, chat_id, "month_total")
                          IN  DelState(R3, chat_id)
        ve == {r \in body : r.exc = "ValueError"}
        ex == {r \in body : IsException(r.exc)} \ ve
    IN  (body \ (ve \cup ex))
        \cup send_message(Caught(ve), chat_id, "invalid_year_month")
        \cup send_message(Caught(ex), chat_id, "error")
        \cup Dead(R)

\* Mutation of handle_month_input: the wrong-token-count branch returns
\* without telling the user.
handle_month_input_silent(R, chat_id, text) ==
    LET parts == Split(text)
        body ==
            IF Len(parts) # 2
            THEN Live(R)
            ELSE IF ~IsNumber(parts[1]) \/ ~IsNumber(parts[2])
            THEN Raise(Live(R), "ValueError")
            ELSE LET year == NumVal(parts[1])
                     month == NumVal(parts[2])
                 IN  IF ~(1 <= month /\ month <= 12)
                     THEN send_message(Live(R), chat_id, "month_range")
                     ELSE LET R1 == fetch_monthly_total(Live(R), year, month)
                              R2 == IF year < MINYEAR
                                    THEN Raise(R1, "ValueError") ELSE R1
                              R3 == send_message(R2, chat_id, "month_total")
                          IN  DelState(R3, chat_id)
        ve == {r \in body : r.exc = "ValueError"}
        ex == {r \in body : IsException(r.exc)} \ ve
    IN  (body \ (ve \cup ex))
        \cup send_message(Caught(ve), chat_id, "invalid_year_month")
        \cup send_message(Caught(ex), chat_id, "error")
        \cup Dead(R)

handle_month_input(R, chat_id, text) ==
    LET parts == Split(text)
        body ==
            IF Len(parts) # 2
            THEN send_message(Live(R), chat_id, "month_format")
            ELSE IF ~IsNumber(parts[1]) \/ ~IsNumber(parts[2])
            THEN Raise(Live(R), "ValueError")
            ELSE LET year == NumVal(parts[1])
                     month == NumVal(parts[2])
                 IN  IF ~(1 <= month /\ month <= 12)
                     THEN send_message(Live(R), chat_id, "month_range")
                     ELSE LET R1 == fetch_monthly_total(Live(R), year, month)
                              \* datetime(year, month, 1)
                              R2 == IF year < MINYEAR
                                    THEN Raise(R1, "ValueError") ELSE R1
                              R3 == send_message(R2, chat_id, "month_total")
                          IN  DelState(R3, chat_id)
        ve == {r \in body : r.exc = "ValueError"}
        ex == {r \in body : IsException(r.exc)} \ ve
    IN  (body \ (ve \cup ex))
        \cup send_message(Caught(ve), chat_id, "invalid_year_month")
        \cup send_message(Caught(ex), chat_id, "error")
        \cup Dead(R)

StateOf(r, chat_id) ==
    IF chat_id \in DOMAIN r.ud THEN r.ud[chat_id].state ELSE "none"

\* Mutation of handle_text_message: the else of "if chat_id in user_data"
\* is lost, a text without a pending mode gets no answer.
handle_text_message_no_else(R, chat_id, text) ==
    IF ~is_authorized(chat_id) THEN send_message(R, chat_id, "unauthorized")
    ELSE LET expense == {r \in Live(R) :
                            StateOf(r, chat_id) = "waiting_for_expense"}
             month == {r \in Live(R) :
                          StateOf(r, chat_id) = "waiting_for_month"}
         IN  handle_expense_input(expense, chat_id, text)
             \cup handle_month_input(month, chat_id, text)
             \cup (R \ (expense \cup month))

handle_text_message(R, chat_id, text) ==
    IF ~is_authorized(chat_id) THEN send_message(R, chat_id, "unauthorized")
    ELSE LET absent == {r \in Live(R) : chat_id \notin DOMAIN r.ud}
             expense == {r \in Live(R) :
                            StateOf(r, chat_id) = "waiting_for_expense"}
             month == {r \in Live(R) :
                          StateOf(r, chat_id) = "waiting_for_month"}
         IN  handle_expense_input(expense, chat_id, text)
             \cup handle_month_input(month, chat_id, text)
             \cup send_message(absent, chat_id, "use_start")
             \cup (R \ (absent \cup expense \cup month))

(***************************************************************************)
(* src/ana.py: process_data, record by record.                             *)
(*                                                                         *)
(* A raw record is a function from the fields it has to their values       *)
(* (texts).  The dictionaries category_totals and monthly_totals are       *)
(* sequences of <<key, total>> in insertion order, which is the order a    *)
(* Python dict iterates in.                                                *)
(***************************************************************************)
MaxRecords == 3     \* most records in a batch handed to process_data

Uncategorized == <<"U", "n", "c", "a", "t", "e", "g", "o", "r", "i", "z", "e", "d">>

RawRecords == {
    [time |-> <<"2", "0", "2", "5", "-", "1", "0", "-", "0", "1", "T", "1", "0", ":", "0", "0">>, category |-> <<"F", "o", "o", "d">>, amount |-> <<"2", "5", "0">>],
    [time |-> <<"2", "0", "2", "5", "-", "1", "0", "-", "0", "2">>, category |-> << " " >>, amount |-> <<"5", "0">>],
    [time |-> <<"2", "0", "2", "5", "-", "1", "0", "-", "0", "2">>, category |-> <<"F", "o", "o", "d">>],
    [time |-> <<"2", "0", "2", "5", "-", "1", "1", "-", "0", "3">>, category |-> <<"B", "u", "s">>, amount |-> <<"x">>],
    [time |-> <<"2", "0", "2", "5", "-", "1", "3", "-", "0", "1">>, category |-> <<"B", "u", "s">>, amount |-> <<"5", "0">>],
    [time |-> <<"2", "0", "2", "5", "-", "1", "1", "-", "0", "3">>, category |-> <<"B", "u", "s">>, amount |-> <<"-", "5", "0">>],
    [time |-> <<"2", "0", "2", "5", "-", "1", "1", "-", "0", "3">>, category |-> <<" ", "F", "o", "o", "d", " ">>, amount |-> <<"5", "0">>]
}

RawBatches == UNION {[1..n -> RawRecords] : n \in 0..MaxRecords}

\* Mutation of item['time'].split('T')[0]: the split is lost.
DatePart_whole(time) == time

\* item['time'].split('T')[0]
RECURSIVE DatePart(_)
DatePart(time) ==
    IF time = <<>> \/ Head(time) = "T" THEN <<>>
    ELSE <<Head(time)>> \o DatePart(Tail(time))

DaysIn(y, m) ==
    IF m = 2
    THEN IF (y % 4 = 0 /\ y % 100 # 0) \/ y % 400 = 0 THEN 29 ELSE 28
    ELSE IF m \in {4, 6, 9, 11} THEN 30 ELSE 31

\* The shape YYYY-MM-DD, and YYYY-MM-DDTHH:MM, of the modelled alphabet.
IsIsoDate(d) ==
    /\ Len(d) = 10
    /\ d[5] = "-" /\ d[8] = "-"
    /\ \A i \in {1, 2, 3, 4, 6, 7, 9, 10} : d[i] \in Digits
    /\ NatVal(SubSeq(d, 1, 4)) >= MINYEAR
    /\ NatVal(SubSeq(d, 6, 7)) \in 1..12
    /\ NatVal(SubSeq(d, 9, 10)) \in
          1..DaysIn(NatVal(SubSeq(d, 1, 4)), NatVal(SubSeq(d, 6, 7)))

IsIsoTime(t) ==
    /\ Len(t) = 5
    /\ t[3] = ":"
    /\ \A i \in {1, 2, 4, 5} : t[i] \in Digits
    /\ NatVal(SubSeq(t, 1, 2)) \in 0..23
    /\ NatVal(SubSeq(t, 4, 5)) \in 0..59

\* datetime.fromisoformat(s) succeeds
IsIso(s) ==
    \/ IsIsoDate(s)
    \/ /\ Len(s) = 16
       /\ s[11] = "T"
       /\ IsIsoDate(SubSeq(s, 1, 10))
       /\ IsIsoTime(SubSeq(s, 12, 16))

\* datetime.fromisoformat(s)
FromIso(s) ==
    [year |-> NatVal(SubSeq(s, 1, 4)),
     month |-> NatVal(SubSeq(s, 6, 7)),
     day |-> NatVal(SubSeq(s, 9, 10)),
     hour |-> IF Len(s) = 16 THEN NatVal(SubSeq(s, 12, 13)) ELSE 0,
     minute |-> IF Len(s) = 16 THEN NatVal(SubSeq(s, 15, 16)) ELSE 0]

DigitChars == <<"0", "1", "2", "3", "4", "5", "6", "7", "8", "9">>
DigitChar(n) == DigitChars[n + 1]

\* date.strftime("%Y-%m")
YearMonth(date) ==
    <<DigitChar(date.year \div 1000), DigitChar((date.year \div 100) % 10),
      DigitChar((date.year \div 10) % 10), DigitChar(date.year % 10), "-",
      DigitChar(date.month \div 10), DigitChar(date.month % 10)>>

\* Mutation of totals[key] += amount: the amount replaces the total.
AddTo_assign(totals, key, amount) ==
    IF \E i \in 1..Len(totals) : totals[i][1] = key
    THEN [i \in 1..Len(totals) |->
            IF totals[i][1] = key THEN <<key, amount>> ELSE totals[i]]
    ELSE Append(totals, <<key, 0 + amount>>)

\* totals[key] += amount on a defaultdict(float)
AddTo(totals, key, amount) ==
    IF \E i \in 1..Len(totals) : totals[i][1] = key
    THEN [i \in 1..Len(totals) |->
            IF totals[i][1] = key THEN <<key, totals[i][2] + amount>>
            ELSE totals[i]]
    ELSE Append(totals, <<key, 0 + amount>>)

\* The exception the body of the try raises on a record, "none" if none.
RecordError(item) ==
    IF ~({"amount", "time", "category"} \subseteq DOMAIN item) THEN "KeyError"
    ELSE IF ~IsNumber(item.amount) THEN "ValueError"
    ELSE IF ~IsIso(DatePart(item.time)) THEN "ValueError"
    ELSE "none"

\* str(item['category']).strip(), "Uncategorized" when nothing is left
CategoryOf(item) ==
    IF Strip(item.category) = <<>> THEN Uncategorized ELSE Strip(item.category)

\* process_data before its loop.
Entered(all_data) ==
    [all_data |-> all_data, pos |-> 0, dates |-> <<>>, amounts |-> <<>>,
     categories |-> <<>>, category_totals |-> <<>>, monthly_totals |-> <<>>,
     skipped |-> <<>>, pc |-> "loop", exc |-> "none", msg |-> "none",
     top |-> <<>>]

\* Mutation of the except clause: break instead of continue.
Consume_break(st) ==
    LET item == st.all_data[st.pos + 1]
        err == RecordError(item)
    IN  IF err # "none"
        THEN [st EXCEPT !.pos = Len(st.all_data), !.skipped = Append(@, err)]
        ELSE LET amount == NumVal(item.amount)
                 date == FromIso(DatePart(item.time))
                 category == CategoryOf(item)
             IN  [st EXCEPT !.pos = @ + 1,
                            !.dates = Append(@, date),
                            !.amounts = Append(@, amount),
                            !.categories = Append(@, category),
                            !.category_totals = AddTo(@, category, amount),
                            !.monthly_totals = AddTo(@, YearMonth(date), amount)]

\* Mutation of the loop body: the amount is appended as soon as it is
\* parsed, before the timestamp is.
Consume_early_append(st) ==
    LET item == st.all_data[st.pos + 1]
        err == RecordError(item)
    IN  IF err # "none"
        THEN [st EXCEPT !.pos = @ + 1, !.skipped = Append(@, err),
                        !.amounts =
                            IF {"amount", "time", "category"} \subseteq DOMAIN item
                               /\ IsNumber(item.amount)
                            THEN Append(@, NumVal(item.amount)) ELSE @]
        ELSE LET amount == NumVal(item.amount)
                 date == FromIso(DatePart(item.time))
                 category == CategoryOf(item)
             IN  [st EXCEPT !.pos = @ + 1,
                            !.dates = Append(@, date),
                            !.amounts = Append(@, amount),
                            !.categories = Append(@, category),
                            !.category_totals = AddTo(@, category, amount),
                            !.monthly_totals = AddTo(@, YearMonth(date), amount)]

\* One pass of "for item in all_data": the record validates and is added
\* to the five outputs, or what it raised is caught, printed, and the loop
\* continues.
Consume(st) ==
    LET item == st.all_data[st.pos + 1]
        err == RecordError(item)
    IN  IF err # "none"
        THEN [st EXCEPT !.pos = @ + 1, !.skipped = Append(@, err)]
        ELSE LET amount == NumVal(item.amount)
                 date == FromIso(DatePart(item.time))
                 category == CategoryOf(item)
             IN  [st EXCEPT !.pos = @ + 1,
                            !.dates = Append(@, date),
                            !.amounts = Append(@, amount),
                            !.categories = Append(@, category),
                            !.category_totals = AddTo(@, category, amount),
                            !.monthly_totals = AddTo(@, YearMonth(date), amount)]

\* Mutation of the end of process_data: "if not dates: raise" is lost.
Leave_unchecked(st) == [st EXCEPT !.pc = "returned"]

\* if not dates: raise ValueError(...), else return the five outputs
Leave(st) ==
    IF st.dates = <<>>
    THEN [st EXCEPT !.pc = "raised", !.exc = "ValueError",
                    !.msg = "no_valid_data_points"]
    ELSE [st EXCEPT !.pc = "returned"]

\* process_data(all_data) from call to return.
RECURSIVE Loop(_)
Loop(st) == IF st.pos >= Len(st.all_data) THEN Leave(st) ELSE Loop(Consume(st))

\* if not all_data: raise ValueError(...), before anything else
Enter(all_data) ==
    IF all_data = <<>>
    THEN [Entered(all_data) EXCEPT !.pc = "raised", !.exc = "ValueError",
                                   !.msg = "invalid_or_empty_data"]
    ELSE Entered(all_data)

ProcessData(all_data) ==
    IF Enter(all_data).pc = "raised" THEN Enter(all_data)
    ELSE Loop(Enter(all_data))

(***************************************************************************)
(* src/ana.py, src/bot.py: the top category of the statistics.             *)
(***************************************************************************)
\* Mutation of max(): an item as large as the best so far replaces it.
RECURSIVE MaxItem_last(_, _)
MaxItem_last(best, items) ==
    IF items = <<>> THEN best
    ELSE MaxItem_last(IF Head(items)[2] >= best[2] THEN Head(items) ELSE best,
                      Tail(items))

\* max(..., key=lambda x: x[1]) from the best item so far over the items
\* still to scan: only a strictly larger total replaces the best.
RECURSIVE MaxItem(_, _)
MaxItem(best, items) ==
    IF items = <<>> THEN best
    ELSE MaxItem(IF Head(items)[2] > best[2] THEN Head(items) ELSE best,
                 Tail(items))

\* max(category_totals.items(), key=lambda x: x[1])[0]
TopCategory(category_totals) ==
    MaxItem(Head(category_totals), Tail(category_totals))[1]

(***************************************************************************)
(* src/ana.py, src/bot.py: the series of the category pie charts.          *)
(***************************************************************************)
MaxCats == 6        \* most categories in a totals mapping

PieK == 3           \* plot_category_pie keeps the 3 largest
ChartK == 5         \* send_category_chart keeps the 5 largest

Other == <<"O", "t", "h", "e", "r">>

CategoryNames == <<<<"A">>, <<"B">>, <<"C">>, <<"D">>, <<"E">>, <<"F">>, <<"G">>,
                   <<"H">>>>

TotalValues == {0 - 10, 10, 20}

\* The totals mappings: distinct keys in insertion order, any totals.
TotalsMappings ==
    UNION {{[i \in 1..n |-> <<CategoryNames[i], f[i]>>] : f \in [1..n -> TotalValues]}
           : n \in 0..MaxCats}

RECURSIVE SumOf(_)
SumOf(items) == IF items = <<>> THEN 0 ELSE Head(items)[2] + SumOf(Tail(items))

\* Mutation of the stable sort: an item goes before the items equal to it.
RECURSIVE InsertDesc_before(_, _)
InsertDesc_before(sorted, x) ==
    IF sorted = <<>> THEN <<x>>
    ELSE IF Head(sorted)[2] > x[2]
         THEN <<Head(sorted)>> \o InsertDesc_before(Tail(sorted), x)
         ELSE <<x>> \o sorted

\* Where sorted(..., reverse=True) puts an item that comes later in the
\* input: after every item whose total is at least its own (stable).
RECURSIVE InsertDesc(_, _)
InsertDesc(sorted, x) ==
    IF sorted = <<>> THEN <<x>>
    ELSE IF Head(sorted)[2] >= x[2]
         THEN <<Head(sorted)>> \o InsertDesc(Tail(sorted), x)
         ELSE <<x>> \o sorted

\* sorted(category_totals.items(), key=lambda x: x[1], reverse=True)
RECURSIVE SortedDesc(_)
SortedDesc(items) ==
    IF items = <<>> THEN <<>>
    ELSE InsertDesc(SortedDesc(SubSeq(items, 1, Len(items) - 1)),
                    items[Len(items)])

LabelsOf(items) == [i \in 1..Len(items) |-> items[i][1]]
SizesOf(items) == [i \in 1..Len(items) |-> items[i][2]]

\* labels and sizes of plot_category_pie
PieSeries(category_totals) ==
    LET categories_sorted == SortedDesc(category_totals)
        top_categories == SubSeq(categories_sorted, 1, PieK)
        other_sum == SumOf(SubSeq(categories_sorted, PieK + 1,
                                  Len(categories_sorted)))
    IN  IF Len(categories_sorted) > PieK
        THEN [labels |-> LabelsOf(top_categories) \o <<Other>>,
              sizes |-> SizesOf(top_categories) \o <<other_sum>>]
        ELSE [labels |-> LabelsOf(categories_sorted),
              sizes |-> SizesOf(categories_sorted)]

\* labels and sizes of send_category_chart
ChartSeries(category_totals) ==
    LET categories_sorted == SortedDesc(category_totals)
        n == IF Len(categories_sorted) < ChartK THEN Len(categories_sorted)
             ELSE ChartK
        top == SubSeq(categories_sorted, 1, n)
        other_sum == SumOf(SubSeq(categories_sorted, ChartK + 1,
                                  Len(categories_sorted)))
    IN  IF Len(categories_sorted) > ChartK
        THEN [labels |-> Append(LabelsOf(top), Other),
              sizes |-> Append(SizesOf(top), other_sum)]
        ELSE [labels |-> LabelsOf(top), sizes |-> SizesOf(top)]

(***************************************************************************)
(* src/bot.py: main()                                                      *)
(***************************************************************************)
VARIABLES
    pc,              \* "fetch", "dispatch", "sleep" or "stopped"
    last_update_id,  \* the cursor of main(): None or a number
    offset,          \* the offset passed to the last get_updates call
    fetched,         \* how that call ended: "raised", "not_ok" or "ok"
    updates,         \* the identifiers of the batch being iterated
    idx,             \* position of the for loop in updates
    pause,           \* length of the time.sleep in progress (0: none)
    user_data,       \* the conversation store
    figs,            \* matplotlib figures left open
    rows,            \* rows inserted into the remote table
    handled,         \* identifiers the for loop took from this batch
    dispatched,      \* identifiers handed to a handler, in order
    raised,          \* identifiers whose handler raised into the loop
    cur,             \* the last update taken and what its handler did
    prev_rejected,   \* the rejection the update before cur ended in
    pd,              \* the process_data call in progress: input, position
                     \* of its loop, the five outputs, what it raised
    pie              \* the totals mapping charted and the series drawn

vars == <<pc, last_update_id, offset, fetched, updates, idx, pause, user_data,
          figs, rows, handled, dispatched, raised, cur, prev_rejected, pd,
          pie>>

\* No process_data call, no chart.
NoCall == [Entered(<<>>) EXCEPT !.pc = "idle"]
NoChart == [category_totals |-> <<>>, k |-> 0, labels |-> <<>>, sizes |-> <<>>,
            pc |-> "idle"]

NoState == [c \in {} |-> [state |-> "none"]]

NoUpdate ==
    [id |-> 0, kind |-> "none", chat |-> "none", text |-> <<>>, data |-> "none",
     before |-> NoState, after |-> NoState, calls |-> <<>>, exc |-> "none",
     retry |-> "none"]

MainInit ==
    /\ pc = "fetch"
    /\ last_update_id = None
    /\ offset = None
    /\ fetched = "none"
    /\ updates = <<>>
    /\ idx = 1
    /\ pause = 0
    /\ user_data = NoState
    /\ figs = 0
    /\ rows = 0
    /\ handled = <<>>
    /\ dispatched = <<>>
    /\ raised = {}
    /\ cur = NoUpdate
    /\ prev_rejected = "none"

Init == MainInit /\ pd = NoCall /\ pie = NoChart

\* What the transport may answer to get_updates(off): identifiers at or
\* above the offset (any, when the offset is absent), in increasing order.
Batches(off) ==
    LET lo == IF off = None THEN 1 ELSE off IN
    {b \in UNION {[1..n -> lo..MaxId] : n \in 0..MaxBatch} :
        \A i \in 1..Len(b) : \A j \in 1..Len(b) : i < j => b[i] < b[j]}

\* Mutation of the for loop: the batch is walked from its end.
NextUpdate_reversed(us, i) == us[Len(us) + 1 - i]

\* for update in updates
NextUpdate(us, i) == us[i]

\* Mutation of the cursor update: the + 1 is lost.
NextOffset_same(update_id) == update_id

\* last_update_id = update["update_id"] + 1
NextOffset(update_id) == update_id + 1

\* The rejection a handler run ended in, read off its last reply.
Rejection(r) ==
    IF r.calls = <<>> THEN "none"
    ELSE LET c == r.calls[Len(r.calls)] IN
         IF c.op # "send_message" THEN "none"
         ELSE IF c.what \in {"invalid_format", "invalid_amount"} THEN "expense"
         ELSE IF c.what \in {"month_format", "month_range", "invalid_year_month"}
         THEN "month"
         ELSE "none"

\* The frame of the three fetch outcomes.
FetchFrame ==
    /\ offset' = last_update_id
    /\ idx' = 1
    /\ handled' = <<>>
    /\ UNCHANGED <<last_update_id, user_data, figs, rows, dispatched, raised,
                   cur, prev_rejected, pd, pie>>

\* Mutation of the except clause of main(): the cursor is reset.
FetchRaises_resets ==
    /\ pc = "fetch"
    /\ pc' = "sleep"
    /\ pause' = RetryDelay
    /\ fetched' = "raised"
    /\ updates' = <<>>
    /\ offset' = last_update_id
    /\ idx' = 1
    /\ handled' = <<>>
    /\ last_update_id' = None
    /\ UNCHANGED <<user_data, figs, rows, dispatched, raised, cur,
                   prev_rejected, pd, pie>>

\* get_updates raises (network error, malformed body): except Exception,
\* print, time.sleep(5).
FetchRaises ==
    /\ pc = "fetch"
    /\ pc' = "sleep"
    /\ pause' = RetryDelay
    /\ fetched' = "raised"
    /\ updates' = <<>>
    /\ FetchFrame

\* result.get("ok") is false: the for loop is skipped, time.sleep(0.5).
FetchNotOk ==
    /\ pc = "fetch"
    /\ pc' = "sleep"
    /\ pause' = PollDelay
    /\ fetched' = "not_ok"
    /\ updates' = <<>>
    /\ FetchFrame

\* result["ok"]: the for loop starts on result["result"].
FetchOk ==
    /\ pc = "fetch"
    /\ \E b \in Batches(last_update_id) :
          /\ Len(dispatched) + Len(b) <= MaxDispatch
          /\ updates' = b
    /\ pc' = "dispatch"
    /\ pause' = 0
    /\ fetched' = "ok"
    /\ FetchFrame

\* Mutation of main(): no except Exception clause, a raising handler ends
\* the loop.
Resume_unguarded(exc) == IF exc = "none" THEN "dispatch" ELSE "stopped"

\* Where main() goes when a handler returned (exc = "none": on with the
\* for loop) or raised (except Exception: print, time.sleep(5)).
Resume(exc) == IF exc = "none" THEN "dispatch" ELSE "sleep"

\* Mutation of the cursor update: when a handler raises, the cursor is put
\* past the whole batch.
Iterate_skips_batch(id, kind, chat_id, text, data, r) ==
    /\ last_update_id' = IF r.exc = "none" THEN NextOffset(id)
                         ELSE NextOffset(updates[Len(updates)])
    /\ user_data' = r.ud
    /\ figs' = r.figs
    /\ rows' = r.rows
    /\ handled' = Append(handled, id)
    /\ dispatched' = IF kind = "ignored" THEN dispatched
                     ELSE Append(dispatched, id)
    /\ cur' = [id |-> id, kind |-> kind, chat |-> chat_id, text |-> text,
               data |-> data, before |-> user_data, after |-> r.ud,
               calls |-> r.calls, exc |-> r.exc, retry |-> prev_rejected]
    /\ prev_rejected' = Rejection(r)
    /\ raised' = IF r.exc = "none" THEN raised ELSE raised \cup {id}
    /\ pc' = Resume(r.exc)
    /\ idx' = IF r.exc = "none" THEN idx + 1 ELSE idx
    /\ pause' = IF pc' = "sleep" THEN RetryDelay ELSE 0
    /\ UNCHANGED <<offset, fetched, updates, pd, pie>>

\* One iteration of the for loop, after the handler (if any) ran as r; an
\* exception that left the handler is caught by except Exception: print,
\* time.sleep(5), and the rest of the batch is dropped.
Iterate(id, kind, chat_id, text, data, r) ==
    /\ last_update_id' = NextOffset(id)
    /\ user_data' = r.ud
    /\ figs' = r.figs
    /\ rows' = r.rows
    /\ handled' = Append(handled, id)
    /\ dispatched' = IF kind = "ignored" THEN dispatched
                     ELSE Append(dispatched, id)
    /\ cur' = [id |-> id, kind |-> kind, chat |-> chat_id, text |-> text,
               data |-> data, before |-> user_data, after |-> r.ud,
               calls |-> r.calls, exc |-> r.exc, retry |-> prev_rejected]
    /\ prev_rejected' = Rejection(r)
    /\ raised' = IF r.exc = "none" THEN raised ELSE raised \cup {id}
    /\ pc' = Resume(r.exc)
    /\ idx' = IF r.exc = "none" THEN idx + 1 ELSE idx
    /\ pause' = IF pc' = "sleep" THEN RetryDelay ELSE 0
    /\ UNCHANGED <<offset, fetched, updates, pd, pie>>

InLoop == pc = "dispatch" /\ idx <= Len(updates)

\* "message" in update, text == "/start"
DispatchStart ==
    /\ InLoop
    /\ \E chat_id \in ChatIds :
       \E r \in handle_start({NewRun(user_data, figs, rows)}, chat_id) :
          Iterate(NextUpdate(updates, idx), "start", chat_id, START, "none", r)

\* "message" in update, any other text
DispatchText ==
    /\ InLoop
    /\ \E chat_id \in ChatIds, text \in Texts :
       \E r \in handle_text_message({NewRun(user_data, figs, rows)},
                                    chat_id, text) :
          Iterate(NextUpdate(updates, idx), "text", chat_id, text, "none", r)

\* "callback_query" in update
DispatchCallback ==
    /\ InLoop
    /\ \E chat_id \in ChatIds, data \in Tags :
       \E r \in handle_callback_query({NewRun(user_data, figs, rows)},
                                      NextUpdate(updates, idx), chat_id, data) :
          Iterate(NextUpdate(updates, idx), "callback", chat_id, <<>>, data, r)

\* A message without text, or an update of another kind: no handler.
DispatchNothing ==
    /\ InLoop
    /\ \E chat_id \in ChatIds :
          Iterate(NextUpdate(updates, idx), "ignored", chat_id, <<>>, "none",
                  NewRun(user_data, figs, rows))

\* The for loop is exhausted: time.sleep(0.5).
EndBatch ==
    /\ pc = "dispatch"
    /\ idx > Len(updates)
    /\ pc' = "sleep"
    /\ pause' = PollDelay
    /\ UNCHANGED <<last_update_id, offset, fetched, updates, idx, user_data,
                   figs, rows, handled, dispatched, raised, cur,
                   prev_rejected, pd, pie>>

\* time.sleep returns: back to the top of while True.
Sleep ==
    /\ pc = "sleep"
    /\ pc' = "fetch"
    /\ pause' = 0
    /\ UNCHANGED <<last_update_id, offset, fetched, updates, idx, user_data,
                   figs, rows, handled, dispatched, raised, cur,
                   prev_rejected, pd, pie>>

\* Ctrl+C: except KeyboardInterrupt, break (or, during the sleep of the
\* except clause, the interrupt leaves main() uncaught).
Interrupt ==
    /\ pc \in {"fetch", "dispatch", "sleep"}
    /\ pc' = "stopped"
    /\ pause' = 0
    /\ UNCHANGED <<last_update_id, offset, fetched, updates, idx, user_data,
                   figs, rows, handled, dispatched, raised, cur,
                   prev_rejected, pd, pie>>

Next ==
    \/ FetchRaises
    \/ FetchNotOk
    \/ FetchOk
    \/ DispatchStart
    \/ DispatchText
    \/ DispatchCallback
    \/ DispatchNothing
    \/ EndBatch
    \/ Sleep
    \/ Interrupt

Spec == Init /\ [][Next]_vars

(***************************************************************************)
(* main() against a transport that holds the updates 1..MaxId and answers  *)
(* get_updates(off) with the first MaxBatch of those at or above off, and  *)
(* a user who presses buttons, sends /start or updates without handler,    *)
(* and does not interrupt.                                                 *)
(***************************************************************************)
Pending(off) ==
    LET lo == IF off = None THEN 1 ELSE off
        hi == IF lo + MaxBatch - 1 < MaxId THEN lo + MaxBatch - 1 ELSE MaxId
    IN  [i \in 1..(IF hi >= lo THEN hi - lo + 1 ELSE 0) |-> lo + i - 1]

FetchPending ==
    /\ pc = "fetch"
    /\ updates' = Pending(last_update_id)
    /\ pc' = "dispatch"
    /\ pause' = 0
    /\ fetched' = "ok"
    /\ FetchFrame

\* The buttons pressed while the redelivery is watched: two whose handlers
\* ask the store and may raise or report, one that enters a mode, one that
\* only sends the menu.
LiveTags == {"view_expenses", "ana_stats", "add_expense", "back_menu"}

\* "callback_query" in update, for one of these buttons
DispatchPress ==
    /\ InLoop
    /\ \E chat_id \in ChatIds, data \in LiveTags :
       \E r \in handle_callback_query({NewRun(user_data, figs, rows)},
                                      NextUpdate(updates, idx), chat_id, data) :
          Iterate(NextUpdate(updates, idx), "callback", chat_id, <<>>, data, r)

LiveNext ==
    \/ FetchRaises
    \/ FetchNotOk
    \/ FetchPending
    \/ DispatchStart
    \/ DispatchPress
    \/ DispatchNothing
    \/ EndBatch
    \/ Sleep

\* The process keeps taking steps, and of the fetches it makes one succeeds
\* again and again.
LiveSpec ==
    /\ Init
    /\ [][LiveNext]_vars
    /\ WF_vars(LiveNext)
    /\ SF_vars(FetchPending)

(***************************************************************************)
(* process_data on its own: any batch of raw records, one record a step.   *)
(***************************************************************************)
MainIdle ==
    UNCHANGED <<pc, last_update_id, offset, fetched, updates, idx, pause,
                user_data, figs, rows, handled, dispatched, raised, cur,
                prev_rejected>>

DataInit ==
    /\ MainInit
    /\ pd \in {[Entered(b) EXCEPT !.pc = "called"] : b \in RawBatches}
    /\ pie = NoChart

\* The guard on all_data and the initialisation of the outputs.
EnterStep ==
    /\ pd.pc = "called"
    /\ pd' = Enter(pd.all_data)
    /\ MainIdle /\ UNCHANGED pie

\* One pass of the loop.
ConsumeStep ==
    /\ pd.pc = "loop"
    /\ pd.pos < Len(pd.all_data)
    /\ pd' = Consume(pd)
    /\ MainIdle /\ UNCHANGED pie

\* The loop is over: raise or return.
LeaveStep ==
    /\ pd.pc = "loop"
    /\ pd.pos >= Len(pd.all_data)
    /\ pd' = Leave(pd)
    /\ MainIdle /\ UNCHANGED pie

\* The statistics text is built from what process_data returned.
StatisticsStep ==
    /\ pd.pc = "returned"
    /\ pd' = [pd EXCEPT !.pc = "reported",
                        !.top = TopCategory(pd.category_totals)]
    /\ MainIdle /\ UNCHANGED pie

DataNext ==
    \/ EnterStep
    \/ ConsumeStep
    \/ LeaveStep
    \/ StatisticsStep

DataSpec == DataInit /\ [][DataNext]_vars

(***************************************************************************)
(* The conversation store on its own: assignments and deletions in any     *)
(* order, logged in cur.calls.                                             *)
(***************************************************************************)
MaxOps == 3         \* most operations applied to the store

Modes == {"waiting_for_expense", "waiting_for_month"}

StoreFrame ==
    UNCHANGED <<pc, last_update_id, offset, fetched, updates, idx, pause, figs,
                rows, handled, dispatched, raised, prev_rejected, pd, pie>>

\* The operation op of chat_id ended as run r.
Applied(op, chat_id, mode, r) ==
    /\ user_data' = r.ud
    /\ cur' = [cur EXCEPT !.kind = op, !.chat = chat_id, !.data = mode,
                          !.before = user_data, !.after = r.ud,
                          !.exc = r.exc,
                          !.calls = Append(@, Call(op, chat_id, mode,
                                                   r.exc = "none"))]
    /\ StoreFrame

\* user_data[chat_id] = {'state': mode}
SetStep ==
    /\ Len(cur.calls) < MaxOps
    /\ \E chat_id \in ChatIds, mode \in Modes :
       \E r \in SetState({NewRun(user_data, figs, rows)}, chat_id, mode) :
          Applied("set", chat_id, mode, r)

\* del user_data[chat_id]
DelStep ==
    /\ Len(cur.calls) < MaxOps
    /\ \E chat_id \in ChatIds :
       \E r \in DelState({NewRun(user_data, figs, rows)}, chat_id) :
          Applied("del", chat_id, "none", r)

StoreNext ==
    \/ SetStep
    \/ DelStep

StoreSpec == Init /\ [][StoreNext]_vars

(***************************************************************************)
(* The two pie charts on any totals mapping.                               *)
(***************************************************************************)
ChartInit ==
    /\ MainInit
    /\ pd = NoCall
    /\ pie \in {[NoChart EXCEPT !.category_totals = t] : t \in TotalsMappings}

plot_category_pie ==
    /\ pie.pc = "idle"
    /\ pie' = [pie EXCEPT !.k = PieK, !.pc = "drawn",
                          !.labels = PieSeries(pie.category_totals).labels,
                          !.sizes = PieSeries(pie.category_totals).sizes]
    /\ MainIdle /\ UNCHANGED pd

CategoryChart ==
    /\ pie.pc = "idle"
    /\ pie' = [pie EXCEPT !.k = ChartK, !.pc = "drawn",
                          !.labels = ChartSeries(pie.category_totals).labels,
                          !.sizes = ChartSeries(pie.category_totals).sizes]
    /\ MainIdle /\ UNCHANGED pd

ChartNext ==
    \/ plot_category_pie
    \/ CategoryChart

ChartSpec == ChartInit /\ [][ChartNext]_vars

(***************************************************************************)
(* Vocabulary of the properties.                                           *)
(***************************************************************************)
CallsWith(calls, ops) == {i \in 1..Len(calls) : calls[i].op \in ops}
Replies(calls) == CallsWith(calls, {"send_message", "send_photo"})
StoreCalls(calls) == CallsWith(calls, {"insert", "select", "rpc"})
AllOk(calls) == \A i \in 1..Len(calls) : calls[i].ok
ModeIn(ud, chat_id) == IF chat_id \in DOMAIN ud THEN ud[chat_id].state ELSE "none"
Sent(calls, what) ==
    \E i \in 1..Len(calls) : calls[i].op = "send_message" /\ calls[i].what = what

\* cur is a free text of the authorized chat taken in expense-entry mode.
ExpenseEntry ==
    /\ cur.kind = "text"
    /\ is_authorized(cur.chat)
    /\ ModeIn(cur.before, cur.chat) = "waiting_for_expense"

\* A text of a category token, a number and an optional remainder.
WellFormedExpense(text) ==
    Len(SplitN(text, 2)) >= 2 /\ IsNumber(SplitN(text, 2)[2])

\* The identifier the next fetch must carry after cur.
ExpectedOffset == IF cur.kind = "none" THEN None ELSE cur.id + 1

(***************************************************************************)
(* C1: the updates of a batch are taken in the order the transport         *)
(* returned them; whenever the loop is about to fetch, and in the fetch it *)
(* just issued, the offset is the identifier of the last update processed  *)
(* plus 1, and it is absent (None) before any update has been seen.        *)
(***************************************************************************)
C1_CursorDiscipline ==
    /\ Len(handled) <= Len(updates)
    /\ handled = SubSeq(updates, 1, Len(handled))
    /\ pc = "fetch" => last_update_id = ExpectedOffset
    /\ (pc # "fetch" /\ handled = <<>> /\ fetched # "none")
          => offset = ExpectedOffset
    /\ cur.kind = "none" => (last_update_id = None /\ offset = None)

\* A batch of two was taken in order, and the next fetch carried the
\* identifier after its last update.
C1_Witness ==
    /\ pc = "dispatch"
    /\ updates # <<>>
    /\ handled = <<>>
    /\ fetched = "ok"
    /\ Len(dispatched) >= 2
    /\ cur.id = dispatched[Len(dispatched)]
    /\ dispatched[Len(dispatched) - 1] < cur.id
    /\ offset = cur.id + 1

(***************************************************************************)
(* C2: with a transport that only returns identifiers at or above the      *)
(* requested offset, in increasing order, no identifier is handed to a     *)
(* handler twice, also when fetches fail or a handler raises in mid-batch. *)
(***************************************************************************)
C2_NoRedelivery ==
    \A i \in 1..Len(dispatched) : \A j \in 1..Len(dispatched) :
        i # j => dispatched[i] # dispatched[j]

\* A handler raised with updates of its batch still to come, and a later
\* update was dispatched after the retry.
C2_Witness ==
    /\ Len(dispatched) >= 2
    /\ dispatched[Len(dispatched) - 1] \in raised
    /\ handled = <<dispatched[Len(dispatched)]>>

(***************************************************************************)
(* C3: the loop stops only on a user interrupt.  After a fetch that        *)
(* raised, after a not-ok response and after a handler that raised, the    *)
(* next step of the loop is a pause of fixed length (5 s after an          *)
(* exception, the 0.5 s poll delay after a not-ok response), and the only  *)
(* step after the pause is the next fetch.                                 *)
(***************************************************************************)
C3_Step ==
    /\ (pc' = "stopped" /\ pc # "stopped") => Interrupt
    /\ (pc = "fetch" /\ fetched' \in {"raised", "not_ok"} /\ ~Interrupt)
          => /\ pc' = "sleep"
             /\ pause' = IF fetched' = "raised" THEN RetryDelay ELSE PollDelay
    /\ (pc = "dispatch" /\ cur' # cur /\ cur'.exc # "none")
          => pc' = "sleep" /\ pause' = RetryDelay
    /\ pc = "sleep" => (Interrupt \/ (pc' = "fetch" /\ pause' = 0))
    /\ pc' = "sleep" => pause' \in {PollDelay, RetryDelay}

C3_LoopNeverEnds == [][C3_Step]_vars

\* The loop is fetching again after a handler raised in mid-batch.
C3_Witness ==
    /\ pc = "fetch"
    /\ cur.exc # "none"
    /\ handled # <<>>
    /\ Len(handled) < Len(updates)

(***************************************************************************)
(* C4: an update of a chat other than the authorized one (start command,   *)
(* other text, button callback) is answered with the refusal and with      *)
(* nothing else.                                                           *)
(***************************************************************************)
C4_StrangerRefused ==
    (cur.kind \in {"start", "text", "callback"} /\ ~is_authorized(cur.chat))
        => /\ \A i \in Replies(cur.calls) :
                 /\ cur.calls[i].op = "send_message"
                 /\ cur.calls[i].what = "unauthorized"
           /\ AllOk(cur.calls) => Cardinality(Replies(cur.calls)) = 1

(***************************************************************************)
(* C5: the conversation store holds entries for the authorized chat only,  *)
(* each with one of the two modes, and an update of another chat changes   *)
(* no entry and triggers no store operation.                               *)
(***************************************************************************)
C5_StoreOnlyAuthorized ==
    /\ DOMAIN user_data \subseteq {AUTHORIZED_CHAT_ID}
    /\ \A c \in DOMAIN user_data :
          /\ DOMAIN user_data[c] = {"state"}
          /\ user_data[c].state \in {"waiting_for_expense", "waiting_for_month"}
    /\ (cur.kind # "none" /\ ~is_authorized(cur.chat))
          => /\ cur.after = cur.before
             /\ StoreCalls(cur.calls) = {}

\* Another chat pressed the add-expense button while the authorized chat
\* had a mode pending.
C5_Witness ==
    /\ cur.kind = "callback"
    /\ cur.data = "add_expense"
    /\ ~is_authorized(cur.chat)
    /\ AllOk(cur.calls)
    /\ ModeIn(user_data, AUTHORIZED_CHAT_ID) = "waiting_for_month"

(***************************************************************************)
(* C6: a start command received while a mode is pending for that chat      *)
(* removes the entry and presents the top-level menu.                      *)
(***************************************************************************)
C6_StartResets ==
    (cur.kind = "start" /\ cur.chat \in DOMAIN cur.before)
        => /\ cur.chat \notin DOMAIN cur.after
           /\ Sent(cur.calls, "welcome_menu")

(***************************************************************************)
(* C7: every button callback is acknowledged exactly once, and the         *)
(* acknowledgement comes before any routing or reply: it is the first call *)
(* of the handler, whoever the sender and whatever the tag, and nothing    *)
(* has been written or sent when it fails.                                 *)
(***************************************************************************)
C7_AckFirstOnce ==
    cur.kind = "callback"
        => /\ Cardinality(CallsWith(cur.calls, {"answer_callback_query"})) = 1
           /\ cur.calls[1].op = "answer_callback_query"
           /\ cur.calls[1].what = cur.id
           /\ ~cur.calls[1].ok => (Len(cur.calls) = 1 /\ cur.after = cur.before)

\* A callback of another chat with a tag no button carries: acknowledged,
\* then refused.
C7_Witness ==
    /\ cur.kind = "callback"
    /\ cur.data = "bogus"
    /\ ~is_authorized(cur.chat)
    /\ Len(cur.calls) = 2
    /\ cur.calls[1].ok

(***************************************************************************)
(* C8: after an authorized add-expense or monthly-summary press the stored *)
(* mode is the mode just entered, whatever was stored before; after a      *)
(* successful completion the chat has no entry at all.                     *)
(***************************************************************************)
C8_Entered ==
    /\ cur.kind = "callback"
    /\ is_authorized(cur.chat)
    /\ cur.data \in {"add_expense", "monthly_summary"}
    /\ cur.calls[1].ok

C8_Completed ==
    /\ cur.kind = "text"
    /\ cur.exc = "none"
    /\ AllOk(cur.calls)
    /\ Sent(cur.calls, "expense_added") \/ Sent(cur.calls, "month_total")

C8_SetOverwrites ==
    /\ C8_Entered =>
          cur.after = [c \in {cur.chat} |->
                         [state |-> IF cur.data = "add_expense"
                                    THEN "waiting_for_expense"
                                    ELSE "waiting_for_month"]]
    /\ C8_Completed => cur.chat \notin DOMAIN cur.after

\* The monthly-summary button pressed while expense entry was pending.
C8_Witness ==
    /\ C8_Entered
    /\ cur.data = "monthly_summary"
    /\ ModeIn(cur.before, cur.chat) = "waiting_for_expense"
    /\ ModeIn(user_data, cur.chat) = "waiting_for_month"

(***************************************************************************)
(* C9: in expense-entry mode a text of a category token, a number and an   *)
(* optional remainder makes the handler issue exactly one insert, with the *)
(* first token, the parsed number and the text after the second token, and *)
(* the conversation state is cleared afterwards (transport calls           *)
(* succeeding).                                                            *)
(***************************************************************************)
C9_OneInsert ==
    (/\ ExpenseEntry
     /\ WellFormedExpense(cur.text)
     /\ \A i \in Replies(cur.calls) : cur.calls[i].ok)
        => LET parts == SplitN(cur.text, 2)
               ins == CallsWith(cur.calls, {"insert"})
           IN  /\ Cardinality(ins) = 1
               /\ \A i \in ins :
                     /\ cur.calls[i].what.category = parts[1]
                     /\ cur.calls[i].what.amount = NumVal(parts[2])
                     /\ cur.calls[i].what.note =
                            IF Len(parts) > 2 THEN Strip(parts[3]) ELSE <<>>
               /\ cur.chat \notin DOMAIN cur.after

(***************************************************************************)
(* C10: in expense-entry mode a text with fewer than two tokens, or whose  *)
(* second token is no number, is rejected: no insert is issued and the     *)
(* state stays waiting_for_expense; a well-formed text that follows the    *)
(* rejection is taken as the expense without another button press.         *)
(***************************************************************************)
C10_RejectKeepsMode ==
    /\ (ExpenseEntry /\ ~WellFormedExpense(cur.text))
          => /\ CallsWith(cur.calls, {"insert"}) = {}
             /\ ModeIn(cur.after, cur.chat) = "waiting_for_expense"
             /\ cur.calls[1].op = "send_message"
             /\ cur.calls[1].what \in {"invalid_format", "invalid_amount"}
    /\ (/\ cur.retry = "expense"
        /\ cur.kind = "text"
        /\ is_authorized(cur.chat)
        /\ WellFormedExpense(cur.text))
          => /\ ExpenseEntry
             /\ Sent(cur.calls, "expense_added")
             /\ AllOk(cur.calls) => cur.chat \notin DOMAIN cur.after

\* A rejected text followed by a well-formed one that was stored.
C10_Witness ==
    /\ cur.retry = "expense"
    /\ ExpenseEntry
    /\ WellFormedExpense(cur.text)
    /\ AllOk(cur.calls)
    /\ Cardinality(CallsWith(cur.calls, {"insert"})) = 1
    /\ cur.chat \notin DOMAIN cur.after

(***************************************************************************)
(* Vocabulary of the month-query properties.                               *)
(***************************************************************************)
\* cur is a free text of the authorized chat taken in month-query mode.
MonthQuery ==
    /\ cur.kind = "text"
    /\ is_authorized(cur.chat)
    /\ ModeIn(cur.before, cur.chat) = "waiting_for_month"

\* A text of exactly two integers.
TwoIntegers(text) ==
    /\ Len(Split(text)) = 2
    /\ IsNumber(Split(text)[1])
    /\ IsNumber(Split(text)[2])

YearOf(text) == NumVal(Split(text)[1])
MonthOf(text) == NumVal(Split(text)[2])

\* Every send_message and send_photo of the run went through.
RepliesOk(calls) == \A i \in Replies(calls) : calls[i].ok

(***************************************************************************)
(* C11: in month-query mode a text of two integers whose month is outside  *)
(* 1..12 is rejected with the month-range error, a text that is not two    *)
(* integers is rejected as well, no aggregation call is made, and the      *)
(* state stays waiting_for_month: the text that follows the rejection is   *)
(* handled as a month query and answered with the total when it is valid.  *)
(***************************************************************************)
C11_MonthRejectKeepsMode ==
    /\ (MonthQuery /\ TwoIntegers(cur.text) /\ MonthOf(cur.text) \notin 1..12)
          => /\ cur.calls[1].op = "send_message"
             /\ cur.calls[1].what = "month_range"
             /\ CallsWith(cur.calls, {"rpc"}) = {}
             /\ ModeIn(cur.after, cur.chat) = "waiting_for_month"
    /\ (MonthQuery /\ ~TwoIntegers(cur.text))
          => /\ cur.calls[1].op = "send_message"
             /\ cur.calls[1].what \in {"month_format", "invalid_year_month"}
             /\ CallsWith(cur.calls, {"rpc"}) = {}
             /\ ModeIn(cur.after, cur.chat) = "waiting_for_month"
    /\ (cur.retry = "month" /\ cur.kind = "text" /\ is_authorized(cur.chat))
          => /\ MonthQuery
             /\ (/\ TwoIntegers(cur.text)
                 /\ MonthOf(cur.text) \in 1..12
                 /\ YearOf(cur.text) >= MINYEAR
                 /\ RepliesOk(cur.calls))
                   => /\ Sent(cur.calls, "month_total")
                      /\ cur.chat \notin DOMAIN cur.after

\* A month out of range was rejected, and the corrected text that followed
\* was answered with the total.
C11_Witness ==
    /\ cur.retry = "month"
    /\ MonthQuery
    /\ TwoIntegers(cur.text)
    /\ MonthOf(cur.text) \in 1..12
    /\ Sent(cur.calls, "month_total")
    /\ RepliesOk(cur.calls)
    /\ cur.chat \notin DOMAIN cur.after

(***************************************************************************)
(* C12: when the store operation of a pending-mode handler fails (the      *)
(* insert in expense-entry mode, the aggregation call in month-query       *)
(* mode), the state is preserved and no success reply is sent.             *)
(***************************************************************************)
C12_StoreFailureIsFailure ==
    ((ExpenseEntry \/ MonthQuery)
     /\ \E i \in CallsWith(cur.calls, {"insert", "rpc"}) : ~cur.calls[i].ok)
        => /\ cur.after = cur.before
           /\ ~Sent(cur.calls, "expense_added")
           /\ ~Sent(cur.calls, "month_total")

(***************************************************************************)
(* C13: a free text of the authorized chat taken while a mode is pending   *)
(* is answered with exactly one message on every path of the mode handler, *)
(* provided sending does not fail.                                         *)
(***************************************************************************)
C13_OneReply ==
    ((ExpenseEntry \/ MonthQuery) /\ RepliesOk(cur.calls))
        => /\ Cardinality(Replies(cur.calls)) = 1
           /\ \A i \in Replies(cur.calls) :
                 /\ cur.calls[i].op = "send_message"
                 /\ cur.calls[i].chat = cur.chat

\* A one-token text in month-query mode, answered with the format error.
C13_Witness ==
    /\ MonthQuery
    /\ Len(Split(cur.text)) = 1
    /\ Sent(cur.calls, "month_format")
    /\ RepliesOk(cur.calls)

(***************************************************************************)
(* C14: a free text of the authorized chat taken while no mode is pending  *)
(* is answered with the prompt to use the start command, triggers no store *)
(* operation and leaves the chat without an entry.                         *)
(***************************************************************************)
C14_NoModePrompt ==
    (/\ cur.kind = "text"
     /\ is_authorized(cur.chat)
     /\ cur.chat \notin DOMAIN cur.before)
        => /\ Len(cur.calls) = 1
           /\ cur.calls[1].op = "send_message"
           /\ cur.calls[1].what = "use_start"
           /\ cur.calls[1].chat = cur.chat
           /\ StoreCalls(cur.calls) = {}
           /\ cur.after = cur.before

\* A well-formed expense text sent without a pending mode: prompted, not
\* stored.
C14_Witness ==
    /\ cur.kind = "text"
    /\ is_authorized(cur.chat)
    /\ cur.chat \notin DOMAIN cur.before
    /\ WellFormedExpense(cur.text)
    /\ cur.calls[1].ok
    /\ rows = 0


(***************************************************************************)
(* process_data (DataSpec)                                                 *)
(***************************************************************************)
\* A record that passes validation: the three fields, a numeric amount, a
\* calendar date before the time-of-day separator.
Validates(item) ==
    /\ {"amount", "time", "category"} \subseteq DOMAIN item
    /\ IsNumber(item.amount)
    /\ IsIso(DatePart(item.time))

Finished == pd.pc \in {"returned", "raised"}

RECURSIVE SumSeq(_)
SumSeq(xs) == IF xs = <<>> THEN 0 ELSE Head(xs) + SumSeq(Tail(xs))

\* C15: for a non-empty batch, validated plus skipped records are the
\* records consumed (the whole batch at the end), every validated category
\* is non-empty, and dates, amounts and categories have one length.
C15_CountsAndLengths ==
    (pd.pc \in {"loop", "returned", "raised"} /\ pd.all_data # <<>>) =>
        /\ Len(pd.dates) + Len(pd.skipped) = pd.pos
        /\ Finished => pd.pos = Len(pd.all_data)
        /\ \A i \in 1..Len(pd.categories) : pd.categories[i] # <<>>
        /\ Len(pd.dates) = Len(pd.amounts)
        /\ Len(pd.amounts) = Len(pd.categories)

C15_Witness ==
    /\ pd.pc = "returned"
    /\ Len(pd.all_data) >= 2
    /\ pd.skipped # <<>>
    /\ \E i \in 1..Len(pd.all_data) :
          /\ {"amount", "time", "category"} \subseteq DOMAIN pd.all_data[i]
          /\ IsNumber(pd.all_data[i].amount)
          /\ ~IsIso(DatePart(pd.all_data[i].time))

\* C16: process_data raises ValueError and returns nothing exactly when no
\* record of the batch validates (the empty batch included); otherwise it
\* returns its aggregates and raises nothing.
C16_FailsIffNoneValid ==
    Finished =>
        IF \A i \in 1..Len(pd.all_data) : ~Validates(pd.all_data[i])
        THEN /\ pd.pc = "raised"
             /\ pd.exc = "ValueError"
             /\ pd.dates = <<>> /\ pd.category_totals = <<>>
             /\ pd.monthly_totals = <<>>
        ELSE /\ pd.pc = "returned"
             /\ pd.exc = "none"
             /\ pd.category_totals # <<>> /\ pd.monthly_totals # <<>>

C16_Witness ==
    /\ pd.pc = "raised"
    /\ Len(pd.skipped) >= 2
    /\ \E i \in 1..Len(pd.skipped) : pd.skipped[i] = "KeyError"

\* C17: after every prefix consumed and at the return, the category
\* totals, the monthly totals and the validated amounts have one sum.
C17_SumsAgree ==
    pd.pc \in {"loop", "returned"} =>
        /\ SumOf(pd.category_totals) = SumSeq(pd.amounts)
        /\ SumOf(pd.monthly_totals) = SumSeq(pd.amounts)

C17_Witness ==
    /\ pd.pc = "returned"
    /\ \E i \in 1..Len(pd.amounts) : pd.amounts[i] < 0
    /\ Len(pd.category_totals) < Len(pd.amounts)
    /\ Len(pd.monthly_totals) >= 2

ValidRecords(batch) == SelectSeq(batch, Validates)

Outputs(st) ==
    <<st.dates, st.amounts, st.categories, st.category_totals,
      st.monthly_totals, st.pc, st.exc>>

\* C18: the result on a batch is the result on the sub-sequence of its
\* valid records, and dates and amounts are those of the valid records in
\* input order.
C18_FailingRecordsInert ==
    Finished =>
        LET valid == ValidRecords(pd.all_data)
        IN  /\ Outputs(pd) = Outputs(ProcessData(valid))
            /\ pd.amounts = [i \in 1..Len(valid) |-> NumVal(valid[i].amount)]
            /\ pd.dates =
                  [i \in 1..Len(valid) |-> FromIso(DatePart(valid[i].time))]

C18_Witness ==
    /\ pd.pc = "returned"
    /\ Len(pd.all_data) >= 3
    /\ ~Validates(pd.all_data[1])
    /\ Validates(pd.all_data[2])
    /\ Validates(pd.all_data[3])
    /\ pd.amounts[1] # pd.amounts[2]

(***************************************************************************)
(* The top-K reduction (ChartSpec)                                         *)
(***************************************************************************)
\* Where a category was inserted in the totals mapping charted.
IndexOf(label) ==
    CHOOSE j \in 1..Len(pie.category_totals) : pie.category_totals[j][1] = label

Kept == IF Len(pie.category_totals) < pie.k THEN Len(pie.category_totals)
        ELSE pie.k

\* C19: the series of a chart is the K largest totals in descending order,
\* equal totals in first-encountered order (also against what is left out
\* at the K-th position), then one "Other" bucket equal to the total of all
\* categories minus these K when there are more than K categories, and no
\* "Other" bucket otherwise.
C19_TopK ==
    pie.pc = "drawn" =>
        LET t == pie.category_totals
            n == Len(t)
            m == Kept
        IN  /\ pie.k \in {PieK, ChartK}
            /\ Len(pie.labels) = Len(pie.sizes)
            /\ \A i \in 1..m :
                  /\ \E j \in 1..n : t[j] = <<pie.labels[i], pie.sizes[i]>>
                  /\ \A i2 \in 1..m : i # i2 => pie.labels[i] # pie.labels[i2]
            /\ \A i \in 1..(m - 1) :
                  \/ pie.sizes[i] > pie.sizes[i + 1]
                  \/ /\ pie.sizes[i] = pie.sizes[i + 1]
                     /\ IndexOf(pie.labels[i]) < IndexOf(pie.labels[i + 1])
            /\ \A j \in 1..n :
                  (\A i \in 1..m : pie.labels[i] # t[j][1]) =>
                      \A i \in 1..m :
                          \/ pie.sizes[i] > t[j][2]
                          \/ /\ pie.sizes[i] = t[j][2]
                             /\ IndexOf(pie.labels[i]) < j
            /\ IF n > pie.k
               THEN /\ Len(pie.labels) = pie.k + 1
                    /\ pie.labels[pie.k + 1] = Other
                    /\ pie.sizes[pie.k + 1] =
                          SumOf(t) - SumSeq(SubSeq(pie.sizes, 1, pie.k))
               ELSE /\ Len(pie.labels) = n
                    /\ \A i \in 1..Len(pie.labels) : pie.labels[i] # Other

C19_Witness ==
    /\ pie.pc = "drawn"
    /\ pie.k = ChartK
    /\ Len(pie.category_totals) > ChartK
    /\ pie.labels[ChartK + 1] = Other
    /\ \E j \in 1..Len(pie.category_totals) :
          /\ \A i \in 1..ChartK : pie.labels[i] # pie.category_totals[j][1]
          /\ pie.category_totals[j][2] = pie.sizes[ChartK]
    /\ \E i \in 1..(ChartK - 1) : pie.sizes[i] = pie.sizes[i + 1]

(***************************************************************************)
(* Scenario A (DataSpec)                                                   *)
(***************************************************************************)
ScenarioA ==
    <<[time |-> <<"2", "0", "2", "5", "-", "1", "0", "-", "0", "1", "T", "1", "0", ":", "0", "0">>, category |-> <<"F", "o", "o", "d">>, amount |-> <<"2", "5", "0">>],
      [time |-> <<"2", "0", "2", "5", "-", "1", "0", "-", "0", "2">>, category |-> << " " >>, amount |-> <<"5", "0">>]>>

\* The record process_data has just consumed.
Consumed == pd.all_data[pd.pos]

\* C20: a record with the three fields, a numeric amount and a calendar
\* date in the first ten characters of its timestamp is accepted with that
\* date alone, and with category "Uncategorized" when its category trims
\* to nothing; scenario A returns two expenses, categories "Food" and
\* "Uncategorized", and 300 under the key 2025-10.
C20_UncategorizedAndDatePart ==
    /\ (/\ pd.pc \in {"loop", "returned"}
        /\ pd.pos >= 1
        /\ {"amount", "time", "category"} \subseteq DOMAIN Consumed
        /\ IsNumber(Consumed.amount)
        /\ Len(Consumed.time) >= 10
        /\ IsIsoDate(SubSeq(Consumed.time, 1, 10))
        /\ (Len(Consumed.time) > 10 => Consumed.time[11] = "T"))
       => /\ pd.dates # <<>>
          /\ pd.dates[Len(pd.dates)] =
                [FromIso(SubSeq(Consumed.time, 1, 10))
                    EXCEPT !.hour = 0, !.minute = 0]
          /\ Len(pd.dates) + Len(pd.skipped) = pd.pos
          /\ Strip(Consumed.category) = <<>> =>
                pd.categories[Len(pd.categories)] = Uncategorized
    /\ (pd.pc = "returned" /\ pd.all_data = ScenarioA)
       => /\ pd.categories = <<<<"F", "o", "o", "d">>, Uncategorized>>
          /\ pd.amounts = <<250, 50>>
          /\ pd.skipped = <<>>
          /\ pd.dates =
                <<[year |-> 2025, month |-> 10, day |-> 1, hour |-> 0,
                   minute |-> 0],
                  [year |-> 2025, month |-> 10, day |-> 2, hour |-> 0,
                   minute |-> 0]>>
          /\ pd.monthly_totals = << <<<<"2", "0", "2", "5", "-", "1", "0">>, 300>> >>

C20_Witness == pd.pc = "returned" /\ pd.all_data = ScenarioA

(***************************************************************************)
(* The report requests and the other buttons (Spec)                        *)
(***************************************************************************)
ReportTags == {"view_expenses", "ana_category", "ana_monthly", "ana_stats"}
ModeTags == {"add_expense", "monthly_summary"}

\* cur is a button callback of the authorized chat asking for a report.
ReportRequest ==
    /\ cur.kind = "callback"
    /\ is_authorized(cur.chat)
    /\ cur.data \in ReportTags

\* Every request to the chat transport of the run went through.
TransportOk(calls) ==
    \A i \in CallsWith(calls, {"send_message", "send_photo",
                               "answer_callback_query"}) : calls[i].ok

\* C21: whatever the store returns to an authorized report request, the
\* error stays inside the request: the user gets a reply, nothing is raised
\* into the loop and the loop goes on with the rest of the batch.
C21_ReportErrorsCaught ==
    (ReportRequest /\ TransportOk(cur.calls))
        => /\ cur.exc = "none"
           /\ cur.id \notin raised
           /\ Replies(cur.calls) # {}

\* C22: no figure opened by a chart request is open once the request has
\* returned, whether the chart was sent or an error was raised and reported.
C22_FiguresReleased ==
    (/\ cur.kind = "callback"
     /\ cur.data \in {"ana_category", "ana_monthly"}
     /\ cur.exc = "none")
        => figs = 0

\* C28: a month-query text that is answered with a rejection (invalid
\* format, month out of range, invalid year or month) made no call to the
\* remote store.
C28_RejectedWithoutCall ==
    (/\ MonthQuery
     /\ TransportOk(cur.calls)
     /\ \/ Sent(cur.calls, "month_format")
        \/ Sent(cur.calls, "month_range")
        \/ Sent(cur.calls, "invalid_year_month"))
        => StoreCalls(cur.calls) = {}

\* C25: a fetch that raises or answers not-ok leaves the cursor, the
\* conversation store and the remote table as they were, and the fetch
\* that follows it carries the offset of the failed one.
C25_Step ==
    /\ (pc = "fetch" /\ pc' = "sleep")
          => /\ last_update_id' = last_update_id
             /\ user_data' = user_data
             /\ rows' = rows
    /\ (pc = "fetch" /\ fetched \in {"raised", "not_ok"}
        /\ pc' \in {"sleep", "dispatch"})
          => offset' = offset

C25_FailedFetchChangesNothing == [][C25_Step]_vars

\* A fetch failed after an expense was stored and a mode was entered; the
\* loop is about to fetch again.
C25_Witness ==
    /\ pc = "fetch"
    /\ fetched \in {"raised", "not_ok"}
    /\ last_update_id # None
    /\ offset = last_update_id
    /\ rows > 0
    /\ user_data # NoState

\* C27: a button callback other than add_expense and monthly_summary
\* leaves the conversation store as it was, and a mode pending before it
\* takes the next free text of that chat.
C27_Step ==
    /\ (cur'.kind = "callback" /\ cur'.data \notin ModeTags)
          => cur'.after = cur'.before
    /\ (/\ cur.kind = "callback" /\ cur.data \notin ModeTags
        /\ is_authorized(cur.chat)
        /\ ModeIn(cur.before, cur.chat) # "none"
        /\ cur'.kind = "text" /\ cur'.chat = cur.chat)
          => /\ ModeIn(cur'.before, cur'.chat) = ModeIn(cur.before, cur.chat)
             /\ cur'.calls # <<>>
             /\ ~Sent(cur'.calls, "use_start")

C27_OtherButtonsKeepMode == [][C27_Step]_vars

\* A mode was pending when the back-to-menu button was pressed, and another
\* update of the batch is still to come.
C27_Witness ==
    /\ cur.kind = "callback"
    /\ cur.data = "back_menu"
    /\ is_authorized(cur.chat)
    /\ ModeIn(cur.before, cur.chat) = "waiting_for_expense"
    /\ ModeIn(user_data, cur.chat) = "waiting_for_expense"
    /\ pc = "dispatch"
    /\ idx <= Len(updates)

(***************************************************************************)
(* The top category (DataSpec)                                             *)
(***************************************************************************)
\* The categories of the validated records, the total of one, and where it
\* is first met in the stream of validated records.
StreamCategories == {pd.categories[i] : i \in 1..Len(pd.categories)}

StreamTotal(c) ==
    SumSeq([i \in 1..Len(pd.amounts) |->
               IF pd.categories[i] = c THEN pd.amounts[i] ELSE 0])

FirstMet(c) ==
    CHOOSE i \in 1..Len(pd.categories) :
        /\ pd.categories[i] = c
        /\ \A j \in 1..(i - 1) : pd.categories[j] # c

\* C23: the top category of the statistics has a maximal total, and of
\* the categories with that total it is the one met first in the stream of
\* validated records.
C23_TopCategory ==
    pd.pc = "reported" =>
        /\ pd.top \in StreamCategories
        /\ \A c \in StreamCategories :
              /\ StreamTotal(pd.top) >= StreamTotal(c)
              /\ (StreamTotal(c) = StreamTotal(pd.top) /\ c # pd.top)
                    => FirstMet(pd.top) < FirstMet(c)

C23_Witness ==
    /\ pd.pc = "reported"
    /\ Len(pd.categories) >= 3
    /\ \E c \in StreamCategories :
          c # pd.top /\ StreamTotal(c) = StreamTotal(pd.top)

C24_EntryPresentAtClear ==
    (/\ cur.kind = "text"
     /\ \E i \in 1..Len(cur.calls) :
           /\ cur.calls[i].op = "send_message"
           /\ cur.calls[i].what \in {"expense_added", "month_total"}
           /\ cur.calls[i].ok)
        => /\ cur.chat \in DOMAIN cur.before
           /\ cur.chat \notin DOMAIN cur.after
           /\ cur.exc = "none"
           /\ ~Sent(cur.calls, "error")

(***************************************************************************)
(* Redelivery after a handler raised (LiveSpec)                            *)
(***************************************************************************)
\* The handler of cur raised and id comes after cur in the batch that was
\* dropped.
DroppedAfterRaise(id) ==
    /\ pc = "sleep"
    /\ cur.exc # "none"
    /\ idx <= Len(updates)
    /\ updates[idx] = cur.id
    /\ \E j \in (idx + 1)..Len(updates) : updates[j] = id

\* The for loop took id and handed it to its handler (if it has one).
Delivered(id) ==
    /\ cur.id = id
    /\ cur.kind # "ignored" => \E i \in 1..Len(dispatched) : dispatched[i] = id

\* No update whose handler raised was handed to a handler twice.
RaisedOnce ==
    \A x \in raised :
        Cardinality({i \in 1..Len(dispatched) : dispatched[i] = x}) = 1

\* C26: an update that follows in its batch an update whose handler raised
\* (its identifier is then 2 at least) is eventually dispatched, and the
\* update whose handler raised is never dispatched again.
C26_DroppedUpdatesRedelivered ==
    /\ \A id \in 2..MaxId : DroppedAfterRaise(id) ~> Delivered(id)
    /\ []RaisedOnce

C26_Witness ==
    /\ \E id \in 1..MaxId : DroppedAfterRaise(id)
    /\ raised # {}
    /\ last_update_id = cur.id + 1


====
